---- MODULE Spec2Model ----
(***************************************************************************)
(* The velocity-Verlet integrator of SpectRE (verlet.cu) and the slice     *)
(* output manager (slice_output_manager.cu) as a state machine.            *)
(*                                                                         *)
(* Numbers.  A double is modelled by an element of the prime field GF(P):  *)
(* +, -, *, / and integer powers are exact in GF(P), so every identity     *)
(* between rational expressions that holds over the reals holds here, and  *)
(* rounding is left out.  A complex number (fftw_complex) is a pair        *)
(* <<re, im>> over GF(P); P = 3 mod 4, so the pairs form the field GF(P^2) *)
(* and the discrete Fourier transform of length n exists for n | P + 1.    *)
(* The exponents rescale_r, rescale_s and md_e_* are integers.             *)
(***************************************************************************)
EXTENDS Integers, Sequences, FiniteSets, TLC

VARIABLES
  n,      \* fs.n, the grid size N
  mp,     \* model_params
  ts,     \* time_state: t, a, adot, addot, dt, physical_time
  phi, chi, phidot, chidot,             \* the driver's fields
  phiddot, chiddot,                     \* accelerations
  phidot_staggered, chidot_staggered,   \* half-step velocities
  nlt,    \* the nonlinear transformer's product fields
  addot, adot_staggered, dptdt, ddptdt, dptdt_staggered,  \* integrator scalars
  loc,    \* step()'s locals that live across its phases
  pc,     \* where the driver thread is: "new", "idle", or the next phase of step()
  done,   \* the phases of the current step() call that have finished, in order
  stepno, \* number of step() calls started
  tcount, \* number of times the driver advanced ts.t
  epoch,  \* for a, adot, addot and the products: the step() call that last wrote them
  launch, \* the last kernel launch: what each worker read and wrote
  access, \* fields whose momentum data was touched while their flag was not momentum
  pre,    \* the values step() started from
  out     \* slice output: bin_idx, files, what the driver was told, stderr

vars == <<n, mp, ts, phi, chi, phidot, chidot, phiddot, chiddot,
          phidot_staggered, chidot_staggered, nlt,
          addot, adot_staggered, dptdt, ddptdt, dptdt_staggered,
          loc, pc, done, stepno, tcount, epoch, launch, access, pre, out>>

-----------------------------------------------------------------------------
(* Bounds of the model *)

MaxSteps == 2
MaxHalfN == 2
MaxSeed == 2
MaxDt == 3
MaxOutputs == 1

-----------------------------------------------------------------------------
(* double arithmetic, in GF(P) *)

P == 23

Fp == 0 .. (P - 1)

Real(k) == k % P

Add(x, y) == (x + y) % P

Sub(x, y) == (x - y) % P

Mul(x, y) == (x * y) % P

Neg(x) == (P - x) % P

RECURSIVE PowN(_, _)
PowN(x, e) == IF e = 0 THEN 1 ELSE Mul(x, PowN(x, e - 1))

\* an array held as an explicit function (TLC evaluates it once)
Eval(f) == f @@ <<>>

\* the table of 1/x; 1/0 is left 0
InvTable ==
  Eval([x \in Fp |-> CHOOSE y \in Fp : IF x = 0 THEN y = 0 ELSE Mul(x, y) = 1])

Inv(x) == InvTable[x]

Div(x, y) == Mul(x, Inv(y))

\* pow(x, e) of <cmath>, e an integer
pow(x, e) == IF e >= 0 THEN PowN(x, e) ELSE PowN(Inv(x), 0 - e)

pow2(x) == Mul(x, x)

pow4(x) == Mul(Mul(x, x), Mul(x, x))

Half == Inv(2)

\* f[lo] + ... + f[hi]
RECURSIVE SumRange(_, _, _)
SumRange(f, lo, hi) ==
  IF lo > hi THEN 0
  ELSE IF lo = hi THEN f[lo]
  ELSE LET mid == (lo + hi) \div 2
       IN  Add(SumRange(f, lo, mid), SumRange(f, mid + 1, hi))

SumTo(f, k) == SumRange(f, 0, k)

-----------------------------------------------------------------------------
(* complex numbers <<re, im>> *)

CAdd(u, v) == <<Add(u[1], v[1]), Add(u[2], v[2])>>

CMul(u, v) == <<Sub(Mul(u[1], v[1]), Mul(u[2], v[2])),
                Add(Mul(u[1], v[2]), Mul(u[2], v[1]))>>

Conj(u) == <<u[1], Neg(u[2])>>

\* the powers u^0 .. u^e
CPowers(u, e) ==
  LET pw[k \in 0 .. e] == IF k = 0 THEN <<1, 0>> ELSE CMul(u, pw[k - 1]) IN pw

CPow(u, e) == CPowers(u, e)[e]

RECURSIVE CSumRange(_, _, _)
CSumRange(f, lo, hi) ==
  IF lo > hi THEN <<0, 0>>
  ELSE IF lo = hi THEN f[lo]
  ELSE LET mid == (lo + hi) \div 2
       IN  CAdd(CSumRange(f, lo, mid), CSumRange(f, mid + 1, hi))

CSumTo(f, k) == CSumRange(f, 0, k)

\* a primitive nn-th root of unity, exp(2 pi i / nn)
Root(nn) ==
  CHOOSE w \in Fp \X Fp :
    /\ CPow(w, nn) = <<1, 0>>
    /\ \A k \in 1 .. (nn - 1) : CPow(w, k) # <<1, 0>>

\* the powers w^0 .. w^(nn-1)
Twiddle(nn) == Eval([k \in 0 .. (nn - 1) |-> CPowers(Root(nn), nn)[k]])

-----------------------------------------------------------------------------
(* Grid layout *)

\* grid sizes: even, at least 4
GridSizes == {2 * h : h \in 2 .. MaxHalfN}

\* number of stored z-modes, n/2+1
nz(nn) == (nn \div 2) + 1

\* number of stored complex modes
NModes(nn) == nn * nn * nz(nn)

\* leading dimension of the padded in-place real array
ldl(nn) == 2 * ((nn \div 2) + 1)

\* length of a field's buffer in doubles
BufLen(nn) == nn * nn * ldl(nn)

total_gridpoints(nn) == nn * nn * nn

\* a mode index whose row stride is one short: n/2 in place of n/2+1
MomIdxShortRow(x, y, z, nn) == z + (nn \div 2) * (y + nn * x)

\* index of mode (x, y, z) in mdata
MomIdx(x, y, z, nn) == z + ((nn \div 2) + 1) * (y + nn * x)

\* a position index without the padding of the in-place layout
PosIdxUnpadded(x, y, z, nn) == z + nn * (y + nn * x)

\* index of point (x, y, z) in the position data
PosIdx(x, y, z, nn) == z + ldl(nn) * (y + nn * x)

\* index of point (x, y, z) in an output array double_array_gpu(N, N, N)
OutIdx(x, y, z, nn) == z + nn * (y + nn * x)

\* centred index
Centre(x, nn) == IF x <= nn \div 2 THEN x ELSE x - nn

Modes(nn) == (0 .. (nn - 1)) \X (0 .. (nn - 1)) \X (0 .. (nn \div 2))

Points(nn) == (0 .. (nn - 1)) \X (0 .. (nn - 1)) \X (0 .. (nn - 1))

-----------------------------------------------------------------------------
(* The field container: switch_state and its transforms *)

TwiddleTable == Eval([nn \in GridSizes |-> Twiddle(nn)])

\* exp(2 pi i e / nn)
Tw(nn, e) == TwiddleTable[nn][e % nn]

\* forward transform along z: real input, modes kz in 0 .. n/2
R2C_z(b, nn) ==
  Eval([i \in 0 .. (NModes(nn) - 1) |->
    CSumTo([z \in 0 .. (nn - 1) |->
             CMul(<<b[z + ldl(nn) * (i \div nz(nn))], 0>>,
                  Tw(nn, 0 - (i % nz(nn)) * z))], nn - 1)])

\* forward transform along y
R2C_y(a1, nn) ==
  Eval([i \in 0 .. (NModes(nn) - 1) |->
    CSumTo([y \in 0 .. (nn - 1) |->
             CMul(a1[(i % nz(nn)) + nz(nn) * (y + nn * (i \div (nz(nn) * nn)))],
                  Tw(nn, 0 - ((i \div nz(nn)) % nn) * y))], nn - 1)])

\* forward transform along x
R2C_x(a2, nn) ==
  Eval([i \in 0 .. (NModes(nn) - 1) |->
    CSumTo([x \in 0 .. (nn - 1) |->
             CMul(a2[(i % nz(nn)) + nz(nn) * (((i \div nz(nn)) % nn) + nn * x)],
                  Tw(nn, 0 - (i \div (nz(nn) * nn)) * x))], nn - 1)])

\* complex elements laid out as pairs of doubles
Interleave(a3, nn) ==
  Eval([j \in 0 .. (BufLen(nn) - 1) |-> a3[j \div 2][(j % 2) + 1]])

\* forward transform of the padded real array b: unnormalised coefficients
R2C(b, nn) == Interleave(R2C_x(R2C_y(R2C_z(b, nn), nn), nn), nn)

\* inverse transform along x
C2R_x(b, nn) ==
  Eval([i \in 0 .. (NModes(nn) - 1) |->
    CSumTo([kx \in 0 .. (nn - 1) |->
             CMul(<<b[2 * ((i % (nz(nn) * nn)) + nz(nn) * nn * kx)],
                    b[2 * ((i % (nz(nn) * nn)) + nz(nn) * nn * kx) + 1]>>,
                  Tw(nn, kx * (i \div (nz(nn) * nn))))], nn - 1)])

\* inverse transform along y
C2R_y(a1, nn) ==
  Eval([i \in 0 .. (NModes(nn) - 1) |->
    CSumTo([ky \in 0 .. (nn - 1) |->
             CMul(a1[(i % nz(nn)) + nz(nn) * (ky + nn * (i \div (nz(nn) * nn)))],
                  Tw(nn, ky * ((i \div nz(nn)) % nn)))], nn - 1)])

\* inverse transform along z, modes above n/2 by conjugate symmetry, divided by
\* n^3; the padding is zeroed
C2R_z(a2, nn) ==
  Eval([j \in 0 .. (BufLen(nn) - 1) |->
    IF j % ldl(nn) >= nn THEN 0
    ELSE Mul(Inv(Real(total_gridpoints(nn))),
             CSumTo([kz \in 0 .. (nn - 1) |->
                      CMul(IF kz <= nn \div 2
                           THEN a2[kz + nz(nn) * (j \div ldl(nn))]
                           ELSE Conj(a2[(nn - kz) + nz(nn) * (j \div ldl(nn))]),
                           Tw(nn, kz * (j % ldl(nn))))], nn - 1)[1])])

\* inverse transform of the Hermitian-packed array b, divided by n^3
C2R(b, nn) == C2R_z(C2R_y(C2R_x(b, nn), nn), nn)

\* field::switch_state(target): a no-op in the target state, else the transform
switch_state(f, target, nn) ==
  IF f.state = target THEN f
  ELSE IF target = "momentum"
       THEN [state |-> "momentum", buf |-> R2C(f.buf, nn)]
       ELSE [state |-> "position", buf |-> C2R(f.buf, nn)]

-----------------------------------------------------------------------------
(* Collaborators of the integrator whose code is outside src/ *)

\* M_PI of <cmath>, as an element of GF(P)
M_PI == 3

\* model_params::V(phi, chi, a): the potential at one lattice point
V(phi_x, chi_x, a_t, m) ==
  Add(Add(Mul(Half, Mul(pow2(m.m_phi), pow2(phi_x))),
          Mul(Half, Mul(pow2(m.m_chi), pow2(chi_x)))),
      Add(Mul(Mul(Half, pow2(Div(m.g, m.rescale_A))),
              Mul(pow(a_t, 0 - 2 * m.rescale_r), Mul(pow2(phi_x), pow2(chi_x)))),
          Mul(Div(m.lambda_phi, Mul(4, pow2(m.rescale_A))),
              Mul(pow(a_t, 0 - 2 * m.rescale_r), pow4(phi_x)))))

\* vi.integrate(phi, chi, a): the lattice average of V, phi and chi in position
\* state
integrate(ph, ch, a_t, m, nn) ==
  Div(SumTo([j \in 0 .. (BufLen(nn) - 1) |->
              IF j % ldl(nn) >= nn THEN 0 ELSE V(ph.buf[j], ch.buf[j], a_t, m)],
            BufLen(nn) - 1),
      Real(total_gridpoints(nn)))

\* model_params::adoubledot
adoubledot(t, a_t, adot_t, grad_phi, grad_chi, avg_V, m) ==
  Add(Div(Mul(Real(0 - m.rescale_s - 2), pow2(adot_t)), a_t),
      Mul(Mul(Div(Mul(8, M_PI), pow2(m.rescale_A)),
              pow(a_t, 0 - 2 * m.rescale_s - 2 * m.rescale_r - 1)),
          Add(Div(Add(grad_phi, grad_chi), 3),
              Mul(pow(a_t, 2 * m.rescale_s + 2), avg_V))))

\* model_params::adoubledot_staggered: from the half-step velocity, with dt
adoubledot_staggered(t, dt, a_t, adot_s, grad_phi, grad_chi, avg_V, m) ==
  Div(adoubledot(t, a_t, adot_s, grad_phi, grad_chi, avg_V, m),
      Add(1, Mul(Mul(dt, Real(m.rescale_s + 2)), Div(adot_s, a_t))))

ProductNames ==
  {"chi2phi", "phi2chi", "phi3", "chi3", "phi5", "chi5", "phi_md", "chi_md"}

\* whether the transformer forms product k
ProductGate(k, m) ==
  CASE k = "phi3" -> m.lambda_phi # 0
    [] k = "chi3" -> m.lambda_chi # 0
    [] k = "phi5" -> m.gamma_phi # 0
    [] k = "chi5" -> m.gamma_chi # 0
    [] k = "phi_md" -> m.md_e_phi # 0
    [] k = "chi_md" -> m.md_e_chi # 0
    [] OTHER -> TRUE

\* product k at one lattice point; sign(phi) |phi|^(md_e+1) = phi^(md_e+1), md_e
\* even
ProductValue(k, p, c, m) ==
  CASE k = "chi2phi" -> Mul(pow2(c), p)
    [] k = "phi2chi" -> Mul(pow2(p), c)
    [] k = "phi3" -> PowN(p, 3)
    [] k = "chi3" -> PowN(c, 3)
    [] k = "phi5" -> PowN(p, 5)
    [] k = "chi5" -> PowN(c, 5)
    [] k = "phi_md" -> PowN(p, m.md_e_phi + 1)
    [] k = "chi_md" -> PowN(c, m.md_e_chi + 1)

\* one product of the nonlinear transformer: formed point by point in position
\* space, handed over in momentum state
Product(k, ph, ch, m, nn) ==
  switch_state(
    [state |-> "position",
     buf |-> Eval([j \in 0 .. (BufLen(nn) - 1) |->
               IF j % ldl(nn) >= nn THEN 0
               ELSE ProductValue(k, ph.buf[j], ch.buf[j], m)])],
    "momentum", nn)

\* nlt.transform(phi, chi, a), phi and chi in position state: a product that is
\* gated off is left as it was
transform(nl, ph, ch, a_t, m, nn) ==
  Eval([k \in ProductNames |->
         IF ProductGate(k, m) THEN Product(k, ph, ch, m, nn) ELSE nl[k]])

-----------------------------------------------------------------------------
(* The equations of motion *)

\* mom2 of mode (x, y, z): dp^2 (px^2 + py^2 + pz^2)
mom2(x, y, z, m, nn) ==
  Mul(pow2(m.dp),
      Real(Centre(x, nn) * Centre(x, nn) + Centre(y, nn) * Centre(y, nn) + z * z))

dphidotdt(phi_v, chi_v, chi2phi, phi3, phi5, phi_md, a_t, adot_t, addot_t, k2, m) ==
  Sub(Add(Mul(Mul(Neg(pow(a_t, 0 - 2 * m.rescale_s - 2)), k2), phi_v),
          Mul(Mul(Real(m.rescale_r),
                  Add(Mul(Real(m.rescale_s - m.rescale_r + 2), pow2(Div(adot_t, a_t))),
                      Div(addot_t, a_t))),
              phi_v)),
      Mul(Div(pow(a_t, 0 - 2 * m.rescale_s - 2 * m.rescale_r), pow2(m.rescale_B)),
          Add(Add(Add(IF m.md_e_phi # 0
                      THEN Mul(pow(a_t, 2 * m.rescale_r), phi_md)
                      ELSE Mul(Mul(pow2(m.m_phi), pow(a_t, 2 * m.rescale_r)), phi_v),
                      Mul(Div(m.lambda_phi, pow2(m.rescale_A)), phi3)),
                  Mul(pow2(Div(m.g, m.rescale_A)), chi2phi)),
              Mul(Mul(Div(m.gamma_phi, pow4(m.rescale_A)),
                      pow(a_t, 0 - 2 * m.rescale_r)), phi5))))

dchidotdt(phi_v, chi_v, phi2chi, chi3, chi5, chi_md, a_t, adot_t, addot_t, k2, m) ==
  Sub(Add(Mul(Mul(Neg(pow(a_t, 0 - 2 * m.rescale_s - 2)), k2), chi_v),
          Mul(Mul(Real(m.rescale_r),
                  Add(Mul(Real(m.rescale_s - m.rescale_r + 2), pow2(Div(adot_t, a_t))),
                      Div(addot_t, a_t))),
              chi_v)),
      Mul(Div(pow(a_t, 0 - 2 * m.rescale_s - 2 * m.rescale_r), pow2(m.rescale_B)),
          Add(Add(Add(IF m.md_e_chi # 0
                      THEN Mul(pow(a_t, 2 * m.rescale_r), chi_md)
                      ELSE Mul(Mul(pow2(m.m_chi), pow(a_t, 2 * m.rescale_r)), chi_v),
                      Mul(Div(m.lambda_chi, pow2(m.rescale_A)), chi3)),
                  Mul(pow2(Div(m.g, m.rescale_A)), phi2chi)),
              Mul(Mul(Div(m.gamma_chi, pow4(m.rescale_A)),
                      pow(a_t, 0 - 2 * m.rescale_r)), chi5))))

-----------------------------------------------------------------------------
(* verlet.cu: the kernels *)

\* a product read whatever its coefficient is
GatedAlways(coef, name, b, j) == [v |-> b[j], rd |-> {name}]

\* a product read only when its coefficient is nonzero (lines 189-194)
Gated(coef, name, b, j) ==
  IF coef # 0 THEN [v |-> b[j], rd |-> {name}] ELSE [v |-> 0, rd |-> {}]

\* the products a worker feeds to the equations of motion, component j of the buffers
Products(B, j, m) ==
  [chi2phi |-> B.chi2phi[j], phi2chi |-> B.phi2chi[j],
   phi3 |-> Gated(m.lambda_phi, "phi3", B.phi3, j),
   chi3 |-> Gated(m.lambda_chi, "chi3", B.chi3, j),
   phi5 |-> Gated(m.gamma_phi, "phi5", B.phi5, j),
   chi5 |-> Gated(m.gamma_chi, "chi5", B.chi5, j),
   phi_md |-> Gated(m.md_e_phi, "phi_md", B.phi_md, j),
   chi_md |-> Gated(m.md_e_chi, "chi_md", B.chi_md, j)]

ProductReads(q) ==
  {"chi2phi", "phi2chi"} \cup q.phi3.rd \cup q.chi3.rd \cup q.phi5.rd
    \cup q.chi5.rd \cup q.phi_md.rd \cup q.chi_md.rd

\* the accelerations of component j (lines 112-123, 196-207)
Accel(B, j, k2, a_t, adot_t, addot_t, m) ==
  LET q == Products(B, j, m)
  IN  [phiddot |-> dphidotdt(B.phi[j], B.chi[j], q.chi2phi, q.phi3.v, q.phi5.v,
                             q.phi_md.v, a_t, adot_t, addot_t, k2, m),
       chiddot |-> dchidotdt(B.phi[j], B.chi[j], q.phi2chi, q.chi3.v, q.chi5.v,
                             q.chi_md.v, a_t, adot_t, addot_t, k2, m),
       rd |-> {"phi", "chi"} \cup ProductReads(q)]

\* what one worker of verlet_init_kernel stores, c0 and c1 the accelerations of
\* its two components (lines 112-123)
init_stores(idx, c0, c1) ==
  [idx |-> idx,
   phiddot |-> <<c0.phiddot, c1.phiddot>>,
   chiddot |-> <<c0.chiddot, c1.chiddot>>,
   rd |-> c0.rd \cup c1.rd,
   wr |-> {"phiddot", "chiddot"}]

\* one worker of verlet_init_kernel: block (x, y), thread z (lines 93-124)
init_worker(x, y, z, B, a_t, adot_t, addot_t, m, nn) ==
  init_stores(MomIdx(x, y, z, nn),
    Accel(B, 2 * MomIdx(x, y, z, nn), mom2(x, y, z, m, nn), a_t, adot_t, addot_t, m),
    Accel(B, 2 * MomIdx(x, y, z, nn) + 1, mom2(x, y, z, m, nn), a_t, adot_t, addot_t, m))

\* what one worker of verlet_step_kernel stores (lines 196-210): the velocity is
\* kicked with the acceleration just stored
step_stores(idx, c0, c1, B, dt) ==
  [idx |-> idx,
   phiddot |-> <<c0.phiddot, c1.phiddot>>,
   chiddot |-> <<c0.chiddot, c1.chiddot>>,
   phidot |-> <<Add(B.phidot_staggered[2 * idx], Mul(Mul(Half, c0.phiddot), dt)),
                Add(B.phidot_staggered[2 * idx + 1], Mul(Mul(Half, c1.phiddot), dt))>>,
   chidot |-> <<Add(B.chidot_staggered[2 * idx], Mul(Mul(Half, c0.chiddot), dt)),
                Add(B.chidot_staggered[2 * idx + 1], Mul(Mul(Half, c1.chiddot), dt))>>,
   rd |-> c0.rd \cup c1.rd
            \cup {"phiddot", "chiddot", "phidot_staggered", "chidot_staggered"},
   wr |-> {"phiddot", "chiddot", "phidot", "chidot"}]

\* one worker of verlet_step_kernel: block (x, y), thread z (lines 177-211)
step_worker(x, y, z, B, a_t, adot_t, addot_t, dt, m, nn) ==
  step_stores(MomIdx(x, y, z, nn),
    Accel(B, 2 * MomIdx(x, y, z, nn), mom2(x, y, z, m, nn), a_t, adot_t, addot_t, m),
    Accel(B, 2 * MomIdx(x, y, z, nn) + 1, mom2(x, y, z, m, nn), a_t, adot_t, addot_t, m),
    B, dt)

\* the workers of a launch by the element they write
WriterMap(res, nn) ==
  Eval([e \in 0 .. (NModes(nn) - 1) |-> {w \in DOMAIN res : res[w].idx = e}])

\* an array after a launch: element e holds what a worker with idx = e stored,
\* and what it held before where there is none
Written(old, res, wmap, fld) ==
  Eval([j \in DOMAIN old |->
         IF (j \div 2) \in DOMAIN wmap /\ wmap[j \div 2] # {}
         THEN res[CHOOSE w \in wmap[j \div 2] : TRUE][fld][(j % 2) + 1]
         ELSE old[j]])

\* what each worker read and wrote
Footprint(res) ==
  Eval([w \in DOMAIN res |-> [idx |-> res[w].idx, rd |-> res[w].rd, wr |-> res[w].wr]])

\* the arrays flds and the footprint after the workers res ran
Launched(B, res, flds, nn) ==
  [bufs |-> Eval([k \in flds |-> Written(B[k], res, WriterMap(res, nn), k)]),
   workers |-> Footprint(res)]

\* verlet_init_kernel<<<(n, n), n/2+1>>> (lines 150-160)
InitKernel(B, a_t, adot_t, addot_t, m, nn) ==
  Launched(B,
    Eval([w \in Modes(nn) |->
           init_worker(w[1], w[2], w[3], B, a_t, adot_t, addot_t, m, nn)]),
    {"phiddot", "chiddot"}, nn)

\* verlet_step_kernel<<<(n, n), n/2+1>>> (lines 282-294)
StepKernel(B, a_t, adot_t, addot_t, dt, m, nn) ==
  Launched(B,
    Eval([w \in Modes(nn) |->
           step_worker(w[1], w[2], w[3], B, a_t, adot_t, addot_t, dt, m, nn)]),
    {"phiddot", "chiddot", "phidot", "chidot"}, nn)

-----------------------------------------------------------------------------
(* verlet.cu: the host loop of step() *)

\* a weight that counts every stored mode once
ParityOnce(z, nn) == 1

\* weight of a stored mode in the half-grid sum (line 258)
Parity(z, nn) == IF z = 0 \/ z = nn \div 2 THEN 1 ELSE 2

\* half-step velocity (lines 217-218, 251-252)
HalfKick(v, acc, dt) == Add(v, Mul(Mul(Half, acc), dt))

\* drift with the old velocity and acceleration (lines 220-221)
Drift(q, v, acc, dt) == Add(q, Add(Mul(v, dt), Mul(Mul(Half, acc), pow2(dt))))

\* a loop body that drifts the fields with the full-step velocity
KickDriftBodyOldVelocity(st, j, dt) ==
  [st EXCEPT
     !.phidot_staggered[j] = HalfKick(st.phidot[j], st.phiddot[j], dt),
     !.chidot_staggered[j] = HalfKick(st.chidot[j], st.chiddot[j], dt),
     !.phi[j] = Add(@, Mul(st.phidot[j], dt)),
     !.chi[j] = Add(@, Mul(st.chidot[j], dt))]

\* the body of the loop over c for component j = 2 idx + c (lines 251-255)
KickDriftBody(st, j, dt) ==
  [st EXCEPT
     !.phidot_staggered[j] = HalfKick(st.phidot[j], st.phiddot[j], dt),
     !.chidot_staggered[j] = HalfKick(st.chidot[j], st.chiddot[j], dt),
     !.phi[j] = Add(@, Mul(HalfKick(st.phidot[j], st.phiddot[j], dt), dt)),
     !.chi[j] = Add(@, Mul(HalfKick(st.chidot[j], st.chiddot[j], dt), dt))]

\* lines 258-261: the totals take the mode idx just drifted
AddGradients(st, idx, k2) ==
  [st EXCEPT
     !.total_gradient_phi =
        Add(@, Mul(k2, Add(pow2(st.phi[2 * idx]), pow2(st.phi[2 * idx + 1])))),
     !.total_gradient_chi =
        Add(@, Mul(k2, Add(pow2(st.chi[2 * idx]), pow2(st.chi[2 * idx + 1]))))]

\* one pass of the innermost loop, for mode (x, y, z) (lines 240-261)
KickDriftMode(st, x, y, z, dt, m, nn) ==
  AddGradients(
    KickDriftBody(KickDriftBody(st, 2 * MomIdx(x, y, z, nn), dt),
                  2 * MomIdx(x, y, z, nn) + 1, dt),
    MomIdx(x, y, z, nn),
    Mul(mom2(x, y, z, m, nn), Parity(z, nn)))

\* the loop nest of lines 236-264 from its k-th pass on; pass k is
\* x = k / (n (n/2+1)), y = (k / (n/2+1)) mod n, z = k mod (n/2+1)
RECURSIVE KickDriftLoop(_, _, _, _, _)
KickDriftLoop(k, st, dt, m, nn) ==
  IF k >= NModes(nn) \/ st.total_gradient_phi \notin Fp THEN st
  ELSE KickDriftLoop(k + 1,
         KickDriftMode(st, k \div (nn * nz(nn)), (k \div nz(nn)) % nn, k % nz(nn),
                       dt, m, nn),
         dt, m, nn)

\* the arrays the loop works on, the totals at 0 (line 233)
LoopState(F) ==
  [phi |-> F.phi.buf, chi |-> F.chi.buf,
   phidot |-> F.phidot.buf, chidot |-> F.chidot.buf,
   phiddot |-> F.phiddot.buf, chiddot |-> F.chiddot.buf,
   phidot_staggered |-> F.phidot_staggered.buf,
   chidot_staggered |-> F.chidot_staggered.buf,
   total_gradient_phi |-> 0, total_gradient_chi |-> 0]

\* integrator::avg_gradients (code outside src/): the parity-weighted mode sum
\* over n^6, the field in momentum state
avg_gradient(f, m, nn) ==
  Div(SumTo([k \in 0 .. (NModes(nn) - 1) |->
              Mul(Mul(mom2(k \div (nn * nz(nn)), (k \div nz(nn)) % nn, k % nz(nn), m, nn),
                      Parity(k % nz(nn), nn)),
                  Add(pow2(f.buf[2 * k]), pow2(f.buf[2 * k + 1])))],
            NModes(nn) - 1),
      pow2(Real(total_gridpoints(nn))))

\* d(dptdt)/dt (lines 138, 274)
Ddptdt(a_t, adot_t, m) ==
  Mul(Mul(Div(Real(0 - m.rescale_s), m.rescale_B), pow(a_t, 0 - m.rescale_s - 1)), adot_t)

\* names of the fields among fs whose flag is not momentum
NotMomentum(fs) == {k \in DOMAIN fs : fs[k].state # "momentum"}

-----------------------------------------------------------------------------
(* slice_output_manager.cu *)

compute_energy_scaling(a_t, adot_t, m) ==
  Div(Mul(8, M_PI),
      Mul(Mul(Mul(3, pow2(m.rescale_A)), pow(a_t, 2 * m.rescale_r)),
          pow2(Div(adot_t, a_t))))

compute_phi(a_t, phi_x, m) ==
  Div(Mul(pow(a_t, 0 - m.rescale_r), phi_x), m.rescale_A)

compute_T_phys(a_t, adot_t, f, fdot, m) ==
  Add(Sub(Mul(Half, pow2(fdot)),
          Mul(Mul(Div(Mul(Real(m.rescale_r), adot_t), a_t), f), fdot)),
      Mul(Mul(pow2(Div(Mul(Real(m.rescale_r), adot_t), a_t)), Half), pow2(f)))

compute_G_phys(a_t, gx, gy, gz, m) ==
  Mul(Mul(pow(a_t, 0 - 2 * m.rescale_s - 2), Half),
      Add(Add(pow2(gx), pow2(gy)), pow2(gz)))

compute_rho(a_t, adot_t, j, D, m) ==
  Mul(compute_energy_scaling(a_t, adot_t, m),
      Add(Add(Add(V(D.phi[j], D.chi[j], a_t, m),
                  compute_T_phys(a_t, adot_t, D.phi[j], D.phidot[j], m)),
              Add(compute_T_phys(a_t, adot_t, D.chi[j], D.chidot[j], m),
                  compute_G_phys(a_t, D.phigradx[j], D.phigrady[j], D.phigradz[j], m))),
          compute_G_phys(a_t, D.chigradx[j], D.chigrady[j], D.chigradz[j], m)))

GradNames ==
  {"phigradx", "phigrady", "phigradz", "chigradx", "chigrady", "chigradz"}

\* the field and the axis (1, 2, 3) of a gradient array
GradOf(k) ==
  CASE k = "phigradx" -> <<"phi", 1>>
    [] k = "phigrady" -> <<"phi", 2>>
    [] k = "phigradz" -> <<"phi", 3>>
    [] k = "chigradx" -> <<"chi", 1>>
    [] k = "chigrady" -> <<"chi", 2>>
    [] k = "chigradz" -> <<"chi", 3>>

\* the momentum component along axis of the mode that holds double j
ModeMomentum(j, axis, m, nn) ==
  Mul(m.dp,
      Real(CASE axis = 1 -> Centre((j \div 2) \div (nn * nz(nn)), nn)
             [] axis = 2 -> Centre(((j \div 2) \div nz(nn)) % nn, nn)
             [] axis = 3 -> (j \div 2) % nz(nn)))

\* gc.compute() (code outside src/): one gradient component of a field in
\* momentum state, i p f(p) in position space
Gradient(f, axis, m, nn) ==
  C2R(Eval([j \in 0 .. (BufLen(nn) - 1) |->
        IF j % 2 = 0 THEN Neg(Mul(ModeMomentum(j, axis, m, nn), f.buf[j + 1]))
        ELSE Mul(ModeMomentum(j, axis, m, nn), f.buf[j - 1])]),
      nn)

\* one worker of compute_phi_kernel / compute_rho_kernel: block (x, y), thread z
\* (lines 111-116, 127-132)
slice_worker(x, y, z, nn) ==
  [idx |-> PosIdx(x, y, z, nn), out_idx |-> OutIdx(x, y, z, nn)]

\* the workers of a launch <<<(N, N), N>>>
SliceWorkers(nn) ==
  Eval([w \in Points(nn) |-> slice_worker(w[1], w[2], w[3], nn)])

\* the output array after the workers res ran, val[idx] what a worker computes
\* from the elements at idx; elements no worker writes keep what the
\* allocation held
SliceStored(val, res, junk, nn) ==
  Eval([o \in 0 .. (total_gridpoints(nn) - 1) |->
         IF \E w \in DOMAIN res : res[w].out_idx = o
         THEN val[res[CHOOSE w \in DOMAIN res : res[w].out_idx = o].idx]
         ELSE junk])

\* a launch <<<(N, N), N>>> of compute_phi_kernel or compute_rho_kernel
SliceKernel(val, junk, nn) ==
  SliceStored(val, SliceWorkers(nn), junk, nn)

\* write_array_to_file(arr, field, idx): the files afterwards.  io is what the
\* system calls do: "ok", "open" (open fails) or "write" (pwrite fails after the
\* file was created and truncated)
write_array_to_file(files, arr, fld, idx, io) ==
  IF io = "open" THEN files
  ELSE [k \in DOMAIN files \cup {<<fld, idx>>} |->
          IF k = <<fld, idx>> THEN (IF io = "write" THEN <<>> ELSE arr) ELSE files[k]]

\* what write_array_to_file prints (perror, line 147)
write_array_diagnostic(io) ==
  IF io = "open" THEN <<"write_array_to_file: open failed.">> ELSE <<>>

\* what write_array_to_file hands back to output() and output() to the driver:
\* both return void and throw nothing
write_array_reported(fld, idx, io) == {}

-----------------------------------------------------------------------------
(* Initial states: after construction, before initialize() *)

\* model parameter sets of a run
ParamsQuartic ==
  [rescale_A |-> 2, rescale_B |-> 3, rescale_r |-> 1, rescale_s |-> 0 - 1,
   m_phi |-> 1, m_chi |-> 2, lambda_phi |-> 1, lambda_chi |-> 2, g |-> 1,
   gamma_phi |-> 1, gamma_chi |-> 2, md_e_phi |-> 0, md_e_chi |-> 0,
   dp |-> 1, begin_output_time |-> 0]

ParamsFree ==
  [rescale_A |-> 1, rescale_B |-> 1, rescale_r |-> 1, rescale_s |-> 0,
   m_phi |-> 2, m_chi |-> 1, lambda_phi |-> 0, lambda_chi |-> 0, g |-> 2,
   gamma_phi |-> 0, gamma_chi |-> 0, md_e_phi |-> 0, md_e_chi |-> 0,
   dp |-> 2, begin_output_time |-> 5]

ParamsDamped ==
  [rescale_A |-> 3, rescale_B |-> 2, rescale_r |-> 1, rescale_s |-> 0 - 1,
   m_phi |-> 1, m_chi |-> 1, lambda_phi |-> 0, lambda_chi |-> 1, g |-> 1,
   gamma_phi |-> 2, gamma_chi |-> 0, md_e_phi |-> 2, md_e_chi |-> 2,
   dp |-> 1, begin_output_time |-> 0]

ParamsMixed ==
  [rescale_A |-> 2, rescale_B |-> 1, rescale_r |-> 2, rescale_s |-> 1,
   m_phi |-> 3, m_chi |-> 2, lambda_phi |-> 3, lambda_chi |-> 0, g |-> 0,
   gamma_phi |-> 0, gamma_chi |-> 1, md_e_phi |-> 0, md_e_chi |-> 2,
   dp |-> 3, begin_output_time |-> 0]

ParamSets == {ParamsQuartic, ParamsFree, ParamsDamped, ParamsMixed}

\* position-space data of the driver's field number w (phi, chi, phidot, chidot);
\* seed 0 is a homogeneous field
InitData(seed, w, nn) ==
  Eval([j \in 0 .. (BufLen(nn) - 1) |->
    LET z == j % ldl(nn)
        y == (j \div ldl(nn)) % nn
        x == j \div (ldl(nn) * nn)
    IN  IF z >= nn THEN 0
        ELSE IF seed = 0 THEN Real(w + 1)
        ELSE Real(w + seed * (x + 2 * w * y + 3 * z) + x * y * z + w * x * x)])

\* a field the initializer left in momentum state
InitField(seed, w, nn) ==
  [state |-> "momentum", buf |-> R2C(InitData(seed, w, nn), nn)]

\* a field nothing has written yet: its flag and contents are whatever
\* construction left
RawField(junk, nn) ==
  [state |-> IF junk = 0 THEN "momentum" ELSE "position",
   buf |-> Eval([j \in 0 .. (BufLen(nn) - 1) |-> Real(7 * junk)])]

Init ==
  /\ n \in GridSizes
  /\ mp \in ParamSets
  /\ \E seed \in 0 .. MaxSeed, dt \in 2 .. MaxDt, junk \in 0 .. 1 :
       /\ ts = [t |-> 0, a |-> Real(seed + 2), adot |-> Real(seed + 1), addot |-> 0,
                dt |-> Real(dt), physical_time |-> 0]
       /\ phi = InitField(seed, 1, n)
       /\ chi = InitField(seed, 2, n)
       /\ phidot = InitField(seed, 3, n)
       /\ chidot = InitField(seed, 4, n)
       /\ phiddot = RawField(junk, n)
       /\ chiddot = RawField(junk, n)
       /\ phidot_staggered = RawField(junk, n)
       /\ chidot_staggered = RawField(junk, n)
       /\ nlt = [k \in ProductNames |-> RawField(junk, n)]
       /\ dptdt = Div(pow(Real(seed + 2), 0 - mp.rescale_s), mp.rescale_B)
  /\ addot = 0
  /\ adot_staggered = 0
  /\ ddptdt = 0
  /\ dptdt_staggered = 0
  /\ loc = [total_gradient_phi |-> 0, total_gradient_chi |-> 0,
            avg_gradient_phi |-> 0, avg_gradient_chi |-> 0, avg_V |-> 0]
  /\ pc = "new"
  /\ done = <<>>
  /\ stepno = 0
  /\ tcount = 0
  /\ epoch = [a |-> 0, adot |-> 0, addot |-> 0, nlt |-> 0]
  /\ launch = [kernel |-> "none", step |-> 0, saw |-> epoch, workers |-> <<>>]
  /\ access = {}
  /\ pre = [ts |-> ts, addot |-> 0, f |-> <<>>]
  /\ out = [calls |-> 0, bin_idx |-> 0, files |-> <<>>, reported |-> {},
            failed |-> {}, stderr |-> <<>>, io |-> <<>>, kernel |-> <<>>]

-----------------------------------------------------------------------------
(* verlet<R>::initialize and verlet<R>::step, statement by statement.  A      *)
(* statement maps the state of the objects, held as one record, to the state *)
(* it leaves.                                                                *)

FieldNames ==
  {"phi", "chi", "phidot", "chidot", "phiddot", "chiddot",
   "phidot_staggered", "chidot_staggered"}

\* the state of the objects; tmp holds the arrays local to a running call
Obj ==
  [ts |-> ts,
   f |-> [phi |-> phi, chi |-> chi, phidot |-> phidot, chidot |-> chidot,
          phiddot |-> phiddot, chiddot |-> chiddot,
          phidot_staggered |-> phidot_staggered,
          chidot_staggered |-> chidot_staggered],
   nlt |-> nlt, addot |-> addot, adot_staggered |-> adot_staggered,
   dptdt |-> dptdt, ddptdt |-> ddptdt, dptdt_staggered |-> dptdt_staggered,
   loc |-> loc, launch |-> launch, access |-> access, pre |-> pre, out |-> out,
   tmp |-> <<>>]

\* switch_state(target) on each of the fields names
switch_fields(s, names, target) ==
  [s EXCEPT !.f = Eval([k \in FieldNames |->
                          IF k \in names THEN switch_state(s.f[k], target, n)
                          ELSE s.f[k]])]

\* the sums of integrator<R>::avg_gradients, phi and chi in momentum state
sum_gradients(s) ==
  [s EXCEPT !.loc.avg_gradient_phi = avg_gradient(s.f.phi, mp, n),
            !.loc.avg_gradient_chi = avg_gradient(s.f.chi, mp, n)]

\* integrator<R>::avg_gradients(fs, mp, phi, chi, ...) (line 132)
avg_gradients(s) == sum_gradients(switch_fields(s, {"phi", "chi"}, "momentum"))

\* the average of vi.integrate, phi and chi in position state
sum_potential(s) ==
  [s EXCEPT !.loc.avg_V = integrate(s.f.phi, s.f.chi, s.ts.a, mp, n)]

\* R avg_V = vi.integrate(phi, chi, ts.a) (lines 135, 269)
vi_integrate(s) == sum_potential(switch_fields(s, {"phi", "chi"}, "position"))

\* the products of nlt.transform
form_products(s) ==
  [s EXCEPT !.nlt = transform(s.nlt, s.f.phi, s.f.chi, s.ts.a, mp, n)]

\* phi and chi as nlt.transform leaves them: in position state, or switched back
AfterTransform(s, back) ==
  IF back THEN switch_fields(s, {"phi", "chi"}, "momentum") ELSE s

\* nlt.transform(phi, chi, ts.a) (lines 140, 277)
nlt_transform(s, back) ==
  AfterTransform(form_products(switch_fields(s, {"phi", "chi"}, "position")), back)

\* the buffers a kernel is handed
KernelArgs(F, nl) ==
  [phi |-> F.phi.buf, chi |-> F.chi.buf,
   phidot |-> F.phidot.buf, chidot |-> F.chidot.buf,
   phiddot |-> F.phiddot.buf, chiddot |-> F.chiddot.buf,
   phidot_staggered |-> F.phidot_staggered.buf,
   chidot_staggered |-> F.chidot_staggered.buf,
   chi2phi |-> nl.chi2phi.buf, phi2chi |-> nl.phi2chi.buf,
   phi3 |-> nl.phi3.buf, chi3 |-> nl.chi3.buf,
   phi5 |-> nl.phi5.buf, chi5 |-> nl.chi5.buf,
   phi_md |-> nl.phi_md.buf, chi_md |-> nl.chi_md.buf]

\* the fields among those a launch touched whose flag is not momentum
LaunchAccess(F, nl, workers) ==
  {k \in UNION {workers[w].rd \cup workers[w].wr : w \in DOMAIN workers} :
     IF k \in ProductNames THEN nl[k].state # "momentum"
     ELSE F[k].state # "momentum"}

\* the objects after the launch K of kernel name
after_launch(s, K, name) ==
  [s EXCEPT
     !.f = Eval([k \in FieldNames |->
                  IF k \in DOMAIN K.bufs THEN [s.f[k] EXCEPT !.buf = K.bufs[k]]
                  ELSE s.f[k]]),
     !.launch = [kernel |-> name, step |-> stepno, saw |-> epoch,
                 workers |-> K.workers],
     !.access = s.access \cup LaunchAccess(s.f, s.nlt, K.workers)]

\* the time state after line 137
TsInit(t0, ad) == [t0 EXCEPT !.addot = ad]

\* lines 137-138
init_addot(s) ==
  [s EXCEPT
     !.addot = adoubledot(s.ts.t, s.ts.a, s.ts.adot, s.loc.avg_gradient_phi,
                          s.loc.avg_gradient_chi, s.loc.avg_V, mp),
     !.ts = TsInit(s.ts,
              adoubledot(s.ts.t, s.ts.a, s.ts.adot, s.loc.avg_gradient_phi,
                         s.loc.avg_gradient_chi, s.loc.avg_V, mp)),
     !.ddptdt = Ddptdt(s.ts.a, s.ts.adot, mp)]

\* lines 142-148
init_switch(s) ==
  switch_fields(s, {"phi", "chi", "phidot", "chidot", "phiddot", "chiddot"},
                "momentum")

\* lines 150-160
init_launch(s) ==
  after_launch(s,
    InitKernel(KernelArgs(s.f, s.nlt), s.ts.a, s.ts.adot, s.addot, mp, n), "init")

\* verlet<R>::initialize() (lines 128-161)
initialize(back) ==
  init_launch(init_switch(nlt_transform(
    init_addot(vi_integrate(avg_gradients(Obj))), back)))

\* a drift that also advances the integrator time
TsDriftAdvancing(t0, ad, dp, ddp) ==
  [t0 EXCEPT !.a = Add(t0.a, Add(Mul(t0.adot, t0.dt), Mul(Mul(Half, ad), pow2(t0.dt)))),
             !.physical_time =
                Add(t0.physical_time, Add(Mul(dp, t0.dt), Mul(Mul(Half, ddp), pow2(t0.dt)))),
             !.t = Add(t0.t, t0.dt)]

\* the time state after lines 220-221
TsDrift(t0, ad, dp, ddp) ==
  [t0 EXCEPT !.a = Drift(t0.a, t0.adot, ad, t0.dt),
             !.physical_time = Drift(t0.physical_time, dp, ddp, t0.dt)]

\* lines 217-221
step_drift(s) ==
  [s EXCEPT !.adot_staggered = HalfKick(s.ts.adot, s.addot, s.ts.dt),
            !.dptdt_staggered = HalfKick(s.dptdt, s.ddptdt, s.ts.dt),
            !.ts = TsDrift(s.ts, s.addot, s.dptdt, s.ddptdt),
            !.pre = [ts |-> s.ts, addot |-> s.addot, f |-> <<>>]]

\* lines 223-231
step_switch(s) == switch_fields(s, FieldNames, "momentum")

\* the objects after the loop nest left st (lines 233-267)
after_loop(s, st) ==
  [s EXCEPT
     !.f.phi.buf = st.phi,
     !.f.chi.buf = st.chi,
     !.f.phidot_staggered.buf = st.phidot_staggered,
     !.f.chidot_staggered.buf = st.chidot_staggered,
     !.loc.total_gradient_phi = st.total_gradient_phi,
     !.loc.total_gradient_chi = st.total_gradient_chi,
     !.loc.avg_gradient_phi =
        Div(st.total_gradient_phi, pow2(Real(total_gridpoints(n)))),
     !.loc.avg_gradient_chi =
        Div(st.total_gradient_chi, pow2(Real(total_gridpoints(n)))),
     !.access = s.access \cup NotMomentum(s.f),
     !.pre.f = LoopState(s.f)]

\* lines 233-267
step_loop(s) == after_loop(s, KickDriftLoop(0, LoopState(s.f), s.ts.dt, mp, n))

\* a kick of adot from the full-step velocity in place of the half-step one
TsKickFullStep(t0, ad, adot_s) ==
  [t0 EXCEPT !.addot = ad, !.adot = Add(t0.adot, Mul(Mul(Half, ad), t0.dt))]

\* the time state after lines 271-272
TsKick(t0, ad, adot_s) ==
  [t0 EXCEPT !.addot = ad, !.adot = Add(adot_s, Mul(Mul(Half, ad), t0.dt))]

\* lines 274-275, the time state kicked
step_dptdt(s) ==
  [s EXCEPT !.ddptdt = Ddptdt(s.ts.a, s.ts.adot, mp),
            !.dptdt = Add(s.dptdt_staggered,
                          Mul(Mul(Half, Ddptdt(s.ts.a, s.ts.adot, mp)), s.ts.dt))]

\* lines 271-272
step_addot(s) ==
  [s EXCEPT
     !.addot = adoubledot_staggered(s.ts.t, s.ts.dt, s.ts.a, s.adot_staggered,
                 s.loc.avg_gradient_phi, s.loc.avg_gradient_chi, s.loc.avg_V, mp),
     !.ts = TsKick(s.ts,
              adoubledot_staggered(s.ts.t, s.ts.dt, s.ts.a, s.adot_staggered,
                s.loc.avg_gradient_phi, s.loc.avg_gradient_chi, s.loc.avg_V, mp),
              s.adot_staggered)]

\* step() without the switches of lines 279-280
kick_switch_missing(s) == s

\* lines 279-280
kick_switch(s) == switch_fields(s, {"phi", "chi"}, "momentum")

\* lines 282-294
step_launch(s) ==
  after_launch(s,
    StepKernel(KernelArgs(s.f, s.nlt), s.ts.a, s.ts.adot, s.addot, s.ts.dt, mp, n),
    "step")

\* an order of the statements with the velocity kick ahead of the rebuild
NextPhaseKickFirst(p) ==
  CASE p = "drift" -> "kickdrift"
    [] p = "kickdrift" -> "addot"
    [] p = "addot" -> "kick"
    [] p = "kick" -> "nlt"
    [] p = "nlt" -> "stepped"

\* the order of the statements of step(): the phase that follows phase p
NextPhase(p) ==
  CASE p = "drift" -> "kickdrift"
    [] p = "kickdrift" -> "addot"
    [] p = "addot" -> "nlt"
    [] p = "nlt" -> "kick"
    [] p = "kick" -> "stepped"

\* the objects take the state r
Store(r) ==
  /\ ts' = r.ts
  /\ phi' = r.f.phi
  /\ chi' = r.f.chi
  /\ phidot' = r.f.phidot
  /\ chidot' = r.f.chidot
  /\ phiddot' = r.f.phiddot
  /\ chiddot' = r.f.chiddot
  /\ phidot_staggered' = r.f.phidot_staggered
  /\ chidot_staggered' = r.f.chidot_staggered
  /\ nlt' = r.nlt
  /\ addot' = r.addot
  /\ adot_staggered' = r.adot_staggered
  /\ dptdt' = r.dptdt
  /\ ddptdt' = r.ddptdt
  /\ dptdt_staggered' = r.dptdt_staggered
  /\ loc' = r.loc
  /\ launch' = r.launch
  /\ access' = r.access
  /\ pre' = r.pre
  /\ out' = r.out

Initialize ==
  /\ pc = "new"
  /\ \E back \in BOOLEAN : \E r \in {initialize(back)} : Store(r)
  /\ pc' = "idle"
  /\ UNCHANGED <<n, mp, done, stepno, tcount, epoch>>

\* lines 217-221: the scale-factor drift
StepDrift ==
  /\ pc = "idle"
  /\ stepno < MaxSteps
  /\ \E r \in {step_drift(Obj)} : Store(r)
  /\ stepno' = stepno + 1
  /\ epoch' = [epoch EXCEPT !.a = stepno + 1]
  /\ done' = <<"drift">>
  /\ pc' = NextPhase("drift")
  /\ UNCHANGED <<n, mp, tcount>>

\* lines 223-267: the kick-drift of the modes and the gradient reduction
StepKickDrift ==
  /\ pc = "kickdrift"
  /\ \E r \in {step_loop(step_switch(Obj))} : Store(r)
  /\ done' = Append(done, "kickdrift")
  /\ pc' = NextPhase("kickdrift")
  /\ UNCHANGED <<n, mp, stepno, tcount, epoch>>

\* lines 269-275: the scale factor's second derivative and velocity
StepAddot ==
  /\ pc = "addot"
  /\ \E r \in {step_dptdt(step_addot(vi_integrate(Obj)))} : Store(r)
  /\ epoch' = [epoch EXCEPT !.adot = stepno, !.addot = stepno]
  /\ done' = Append(done, "addot")
  /\ pc' = NextPhase("addot")
  /\ UNCHANGED <<n, mp, stepno, tcount>>

\* line 277: nlt.transform(phi, chi, ts.a)
StepNlt ==
  /\ pc = "nlt"
  /\ \E back \in BOOLEAN : \E r \in {nlt_transform(Obj, back)} : Store(r)
  /\ epoch' = [epoch EXCEPT !.nlt = stepno]
  /\ done' = Append(done, "nlt")
  /\ pc' = NextPhase("nlt")
  /\ UNCHANGED <<n, mp, stepno, tcount>>

\* lines 279-294: the velocity kick
StepKick ==
  /\ pc = "kick"
  /\ \E r \in {step_launch(kick_switch(Obj))} : Store(r)
  /\ done' = Append(done, "kick")
  /\ pc' = NextPhase("kick")
  /\ UNCHANGED <<n, mp, stepno, tcount, epoch>>

\* the driver, after step() has returned: ts.t += ts.dt
AdvanceTime ==
  /\ pc = "stepped"
  /\ ts' = [ts EXCEPT !.t = Add(@, ts.dt)]
  /\ tcount' = tcount + 1
  /\ pc' = "idle"
  /\ UNCHANGED <<n, mp, phi, chi, phidot, chidot, phiddot, chiddot,
                 phidot_staggered, chidot_staggered, nlt, addot, adot_staggered,
                 dptdt, ddptdt, dptdt_staggered, loc, done, stepno, epoch, launch,
                 access, pre, out>>

-----------------------------------------------------------------------------
(* slice_output_manager<R>::output *)

\* what the system calls of one output() do to the phi file and to the rho file
IoCases == {<<"ok", "ok">>, <<"open", "ok">>, <<"ok", "write">>}

\* the gradient arrays of gc.compute(), phi and chi in momentum state
gradients(s) ==
  [s EXCEPT !.tmp = Eval([k \in GradNames |->
                            Gradient(s.f[GradOf(k)[1]], GradOf(k)[2], mp, n)])]

\* gc.compute() (line 167)
gc_compute(s) == gradients(switch_fields(s, {"phi", "chi"}, "momentum"))

\* lines 169-173
out_switch(s) ==
  switch_fields(s, {"phi", "phidot", "chi", "chidot"}, "position")

\* the arrays compute_rho_kernel is handed (lines 180-185)
RhoArgs(s) ==
  [phi |-> s.f.phi.buf, chi |-> s.f.chi.buf,
   phidot |-> s.f.phidot.buf, chidot |-> s.f.chidot.buf,
   phigradx |-> s.tmp.phigradx, phigrady |-> s.tmp.phigrady,
   phigradz |-> s.tmp.phigradz, chigradx |-> s.tmp.chigradx,
   chigrady |-> s.tmp.chigrady, chigradz |-> s.tmp.chigradz]

\* lines 175-186: the two output arrays
out_kernels(s) ==
  [s EXCEPT !.tmp =
     [phi_out |-> SliceKernel([j \in 0 .. (BufLen(n) - 1) |->
                                 compute_phi(s.ts.a, s.f.phi.buf[j], mp)], 0, n),
      rho_out |-> SliceKernel([j \in 0 .. (BufLen(n) - 1) |->
                                 compute_rho(s.ts.a, s.ts.adot, j, RhoArgs(s), mp)],
                              0, n)]]

\* lines 187-190
out_write(s, io) ==
  [s EXCEPT !.out =
     [calls |-> s.out.calls + 1,
      bin_idx |-> s.out.bin_idx + 1,
      files |-> write_array_to_file(
                  write_array_to_file(s.out.files, s.tmp.phi_out, "phi",
                                      s.out.bin_idx, io[1]),
                  s.tmp.rho_out, "rho", s.out.bin_idx, io[2]),
      reported |-> s.out.reported
                     \cup write_array_reported("phi", s.out.bin_idx, io[1])
                     \cup write_array_reported("rho", s.out.bin_idx, io[2]),
      failed |-> s.out.failed
                   \cup (IF io[1] # "ok" THEN {<<"phi", s.out.bin_idx>>} ELSE {})
                   \cup (IF io[2] # "ok" THEN {<<"rho", s.out.bin_idx>>} ELSE {}),
      stderr |-> s.out.stderr \o write_array_diagnostic(io[1])
                              \o write_array_diagnostic(io[2]),
      io |-> io,
      kernel |-> [a |-> s.ts.a, phi |-> s.f.phi, workers |-> SliceWorkers(n)]]]

\* slice_output_manager<R>::output() past its early return (lines 167-190)
output(io) == out_write(out_kernels(out_switch(gc_compute(Obj))), io)

Output ==
  /\ pc = "idle"
  /\ out.calls < MaxOutputs
  /\ IF Mul(ts.physical_time, mp.rescale_B) < mp.begin_output_time
     THEN \E r \in {[Obj EXCEPT !.out.calls = @ + 1]} : Store(r)
     ELSE \E io \in IoCases : \E r \in {output(io)} : Store(r)
  /\ UNCHANGED <<n, mp, pc, done, stepno, tcount, epoch>>

-----------------------------------------------------------------------------

Next ==
  \/ Initialize
  \/ StepDrift
  \/ StepKickDrift
  \/ StepAddot
  \/ StepNlt
  \/ StepKick
  \/ AdvanceTime
  \/ Output

Spec == Init /\ [][Next]_vars

-----------------------------------------------------------------------------
(* The properties *)

\* the phases of step() in the order of its statements
PhaseOrder == <<"drift", "kickdrift", "addot", "nlt", "kick">>

\* step() has just returned
StepReturned == pc = "stepped"

\* initialize() has just returned
InitReturned == pc = "idle" /\ stepno = 0 /\ out.calls = 0

\* the mode (x, y, z) that holds double j of mdata
ModeX(j, nn) == (j \div 2) \div (nn * nz(nn))

ModeY(j, nn) == ((j \div 2) \div nz(nn)) % nn

ModeZ(j, nn) == (j \div 2) % nz(nn)

\* mom2 of the mode that holds double j
Mom2Of(j) == mom2(ModeX(j, n), ModeY(j, n), ModeZ(j, n), mp, n)

\* the doubles of mdata
MDoubles == 0 .. (BufLen(n) - 1)

\* C1: within step() the phases run in the order drift, kick-drift, addot
\* update, nonlinear rebuild, velocity kick, each one finished before the next
\* starts, and the velocity kick kernel is launched with the scale factor, its
\* derivatives and the nonlinear products that this very step() wrote, never
\* those of an earlier step.
C1_PhaseOrder ==
  /\ Len(done) <= Len(PhaseOrder)
  /\ done = SubSeq(PhaseOrder, 1, Len(done))
  /\ pc \in {"kickdrift", "addot", "nlt", "kick"} =>
       /\ Len(done) < Len(PhaseOrder)
       /\ pc = PhaseOrder[Len(done) + 1]
  /\ (pc = "stepped" \/ (pc = "idle" /\ stepno > 0)) => done = PhaseOrder
  /\ pc = "kick" =>
       epoch = [a |-> stepno, adot |-> stepno, addot |-> stepno, nlt |-> stepno]
  /\ launch.kernel = "step" =>
       /\ launch.step >= 1
       /\ launch.saw = [a |-> launch.step, adot |-> launch.step,
                        addot |-> launch.step, nlt |-> launch.step]

\* the second step() has run all five phases and its kernel saw its own products
C1_Witness ==
  /\ pc = "stepped"
  /\ stepno = 2
  /\ done = PhaseOrder
  /\ launch.kernel = "step"
  /\ launch.saw.nlt = 2

\* C2: with output() interleaved, the kick-drift loop and both kernels touch
\* the momentum data only of fields whose flag is momentum, and phi, chi,
\* phidot, chidot, phiddot, chiddot are in momentum state when initialize()
\* and step() return.
C2_MomentumState ==
  /\ access = {}
  /\ (StepReturned \/ InitReturned) =>
       \A f \in {phi, chi, phidot, chidot, phiddot, chiddot} : f.state = "momentum"

\* a first step() that started after output() had left phi, phidot, chi and
\* chidot in position state, and touched no field outside momentum state
C2_Witness ==
  /\ pc = "stepped"
  /\ stepno = 1
  /\ out.bin_idx = 1
  /\ out.kernel.phi.state = "position"
  /\ launch.kernel = "step"
  /\ access = {}
  /\ phidot.state = "momentum"

\* C3: step() advances the scale factor by velocity Verlet; the new addot is
\* adoubledot_staggered at the drifted a and the half-step velocity.
C3_ScaleFactorVerlet ==
  StepReturned =>
    /\ ts.a = Add(pre.ts.a,
                  Add(Mul(pre.ts.adot, ts.dt),
                      Mul(Mul(Half, pre.ts.addot), pow2(ts.dt))))
    /\ ts.adot = Add(pre.ts.adot,
                     Mul(Mul(Half, ts.dt), Add(pre.ts.addot, ts.addot)))
    /\ adot_staggered = Add(pre.ts.adot, Mul(Mul(Half, pre.ts.addot), ts.dt))
    /\ ts.addot =
         adoubledot_staggered(ts.t, ts.dt, ts.a,
           Add(pre.ts.adot, Mul(Mul(Half, pre.ts.addot), ts.dt)),
           loc.avg_gradient_phi, loc.avg_gradient_chi, loc.avg_V, mp)
    /\ addot = ts.addot

\* a second step() that moved a, adot and addot, from a nonzero addot
C3_Witness ==
  /\ pc = "stepped"
  /\ stepno = 2
  /\ pre.ts.addot # 0
  /\ ts.a # pre.ts.a
  /\ ts.adot # pre.ts.adot
  /\ ts.addot # pre.ts.addot
  /\ adot_staggered # pre.ts.adot

\* mode (x, y, z) of the full grid of a Hermitian-symmetric array stored as b:
\* the modes above n/2 are the conjugates of the reflected stored ones
FullMode(b, x, y, z, nn) ==
  IF z <= nn \div 2
  THEN <<b[2 * (z + nz(nn) * (y + nn * x))], b[2 * (z + nz(nn) * (y + nn * x)) + 1]>>
  ELSE Conj(<<b[2 * ((nn - z) + nz(nn) * (((nn - y) % nn) + nn * ((nn - x) % nn)))],
              b[2 * ((nn - z) + nz(nn) * (((nn - y) % nn) + nn * ((nn - x) % nn))) + 1]>>)

\* |k|^2 of mode (x, y, z) of the full grid, all three indices centred
FullMom2(x, y, z, m, nn) ==
  Mul(pow2(m.dp),
      Real(Centre(x, nn) * Centre(x, nn) + Centre(y, nn) * Centre(y, nn)
             + Centre(z, nn) * Centre(z, nn)))

\* the sum of |k|^2 |f(k)|^2 over all n^3 modes, unweighted
FullGridSum(b, m, nn) ==
  SumTo([e \in 0 .. (total_gridpoints(nn) - 1) |->
          Mul(FullMom2(e \div (nn * nn), (e \div nn) % nn, e % nn, m, nn),
              Add(pow2(FullMode(b, e \div (nn * nn), (e \div nn) % nn, e % nn, nn)[1]),
                  pow2(FullMode(b, e \div (nn * nn), (e \div nn) % nn, e % nn, nn)[2])))],
        total_gridpoints(nn) - 1)

\* only mode (0, 0, 0) of b is nonzero
OnlyZeroMode(b) == \A j \in MDoubles \ {0, 1} : b[j] = 0

\* the loop nest of step() has just finished
LoopFinished == pc = "addot"

\* C4: the parity-weighted sum over the stored half grid that step() forms
\* equals the unweighted sum of |k|^2 |f(k)|^2 over the full grid, the average
\* is that sum over total_gridpoints^2, and a field with only mode (0, 0, 0)
\* gives 0.
C4_HalfGridSum ==
  LoopFinished =>
    /\ phi.state = "momentum" /\ chi.state = "momentum"
    /\ loc.total_gradient_phi = FullGridSum(phi.buf, mp, n)
    /\ loc.total_gradient_chi = FullGridSum(chi.buf, mp, n)
    /\ loc.avg_gradient_phi =
         Div(FullGridSum(phi.buf, mp, n),
             Mul(Real(total_gridpoints(n)), Real(total_gridpoints(n))))
    /\ loc.avg_gradient_chi =
         Div(FullGridSum(chi.buf, mp, n),
             Mul(Real(total_gridpoints(n)), Real(total_gridpoints(n))))
    /\ OnlyZeroMode(phi.buf) => loc.total_gradient_phi = 0
    /\ OnlyZeroMode(chi.buf) => loc.total_gradient_chi = 0

\* a sum with a nonzero doubled mode (0 < z < n/2) and a nonzero result
C4_Witness ==
  /\ pc = "addot"
  /\ loc.total_gradient_phi # 0
  /\ loc.avg_gradient_phi # 0
  /\ \E j \in MDoubles :
       /\ ModeZ(j, n) \notin {0, n \div 2}
       /\ Mom2Of(j) # 0
       /\ phi.buf[j] # 0

\* the products whose coefficient is zero
GatedOff(m) == {k \in ProductNames : ~ProductGate(k, m)}

\* the Klein-Gordon acceleration of double j of phi on a code path without the
\* terms whose coefficient is zero; the mass term is the plain one when
\* md_e_phi = 0
OmitPhi(j) ==
  Sub(Add(Mul(Mul(Neg(pow(ts.a, 0 - 2 * mp.rescale_s - 2)), Mom2Of(j)), phi.buf[j]),
          Mul(Mul(Real(mp.rescale_r),
                  Add(Mul(Real(mp.rescale_s - mp.rescale_r + 2), pow2(Div(ts.adot, ts.a))),
                      Div(addot, ts.a))),
              phi.buf[j])),
      Mul(Div(pow(ts.a, 0 - 2 * mp.rescale_s - 2 * mp.rescale_r), pow2(mp.rescale_B)),
          Add(Add(IF mp.md_e_phi = 0
                  THEN Mul(Mul(pow2(mp.m_phi), pow(ts.a, 2 * mp.rescale_r)), phi.buf[j])
                  ELSE Mul(pow(ts.a, 2 * mp.rescale_r), nlt.phi_md.buf[j]),
                  IF mp.lambda_phi = 0 THEN 0
                  ELSE Mul(Div(mp.lambda_phi, pow2(mp.rescale_A)), nlt.phi3.buf[j])),
              Add(Mul(pow2(Div(mp.g, mp.rescale_A)), nlt.chi2phi.buf[j]),
                  IF mp.gamma_phi = 0 THEN 0
                  ELSE Mul(Mul(Div(mp.gamma_phi, pow4(mp.rescale_A)),
                               pow(ts.a, 0 - 2 * mp.rescale_r)), nlt.phi5.buf[j])))))

\* the same for chi
OmitChi(j) ==
  Sub(Add(Mul(Mul(Neg(pow(ts.a, 0 - 2 * mp.rescale_s - 2)), Mom2Of(j)), chi.buf[j]),
          Mul(Mul(Real(mp.rescale_r),
                  Add(Mul(Real(mp.rescale_s - mp.rescale_r + 2), pow2(Div(ts.adot, ts.a))),
                      Div(addot, ts.a))),
              chi.buf[j])),
      Mul(Div(pow(ts.a, 0 - 2 * mp.rescale_s - 2 * mp.rescale_r), pow2(mp.rescale_B)),
          Add(Add(IF mp.md_e_chi = 0
                  THEN Mul(Mul(pow2(mp.m_chi), pow(ts.a, 2 * mp.rescale_r)), chi.buf[j])
                  ELSE Mul(pow(ts.a, 2 * mp.rescale_r), nlt.chi_md.buf[j]),
                  IF mp.lambda_chi = 0 THEN 0
                  ELSE Mul(Div(mp.lambda_chi, pow2(mp.rescale_A)), nlt.chi3.buf[j])),
              Add(Mul(pow2(Div(mp.g, mp.rescale_A)), nlt.phi2chi.buf[j]),
                  IF mp.gamma_chi = 0 THEN 0
                  ELSE Mul(Mul(Div(mp.gamma_chi, pow4(mp.rescale_A)),
                               pow(ts.a, 0 - 2 * mp.rescale_r)), nlt.chi5.buf[j])))))

\* C5: a product whose coefficient is zero is read by no worker of either
\* kernel, and the phiddot, chiddot (and, in step(), phidot, chidot) the
\* kernels store are those of a code path without that term, whatever the
\* product's buffer holds; with md_e = 0 the plain mass term is used.
C5_GatedTerms ==
  ((StepReturned \/ InitReturned) /\ launch.kernel # "none") =>
    /\ \A w \in DOMAIN launch.workers : launch.workers[w].rd \cap GatedOff(mp) = {}
    /\ \A j \in MDoubles :
         /\ phiddot.buf[j] = OmitPhi(j)
         /\ chiddot.buf[j] = OmitChi(j)
         /\ launch.kernel = "step" =>
              /\ phidot.buf[j] =
                   Add(phidot_staggered.buf[j], Mul(Mul(Half, OmitPhi(j)), ts.dt))
              /\ chidot.buf[j] =
                   Add(chidot_staggered.buf[j], Mul(Mul(Half, OmitChi(j)), ts.dt))

\* a step() with every gate off, the untouched phi3 and phi_md buffers holding
\* nonzero values, and a nonzero acceleration stored
C5_Witness ==
  /\ pc = "stepped"
  /\ launch.kernel = "step"
  /\ GatedOff(mp) = ProductNames \ {"chi2phi", "phi2chi"}
  /\ nlt.phi3.buf[0] # 0
  /\ nlt.phi_md.buf[0] # 0
  /\ \E j \in MDoubles : phiddot.buf[j] # 0 /\ phi.buf[j] # 0

\* C6: every snapshot write that failed (open or pwrite) has been reported to
\* the driver that called output().
C6_IoFailureReported == out.failed \subseteq out.reported

\* the padded index of point (x, y, z) in a field's position data
PaddedIdx(x, y, z) == z + 2 * ((n \div 2) + 1) * (y + n * x)

\* the last output() wrote its phi snapshot in full
PhiSnapshot == out.bin_idx > 0 /\ out.io[1] = "ok"

\* the phi file of the last output()
LastPhiFile == out.files[<<"phi", out.bin_idx - 1>>]

\* C7 as stated: the value at offset z + N (y + N x) of the snapshot is
\* compute_phi of the element at index z + N (y + N x) of the position data.
C7_UnpaddedRead ==
  PhiSnapshot =>
    \A w \in Points(n) :
      LastPhiFile[w[3] + n * (w[2] + n * w[1])] =
        compute_phi(out.kernel.a, out.kernel.phi.buf[w[3] + n * (w[2] + n * w[1])], mp)

\* C7: a phi snapshot holds N^3 values, the one at offset z + N (y + N x)
\* being compute_phi(a, phi(x, y, z)) with phi(x, y, z) read at index
\* z + 2 (N/2+1) (y + N x) of the position data; the kernel writes every offset
\* exactly once and reads inside the field's buffer.
C7_PhiSnapshot ==
  PhiSnapshot =>
    /\ out.kernel.phi.state = "position"
    /\ DOMAIN LastPhiFile = 0 .. (n * n * n - 1)
    /\ \A w \in Points(n) :
         LastPhiFile[w[3] + n * (w[2] + n * w[1])] =
           compute_phi(out.kernel.a,
                       out.kernel.phi.buf[PaddedIdx(w[1], w[2], w[3])], mp)
    /\ DOMAIN out.kernel.workers = Points(n)
    /\ \A w \in Points(n) :
         /\ out.kernel.workers[w].out_idx = w[3] + n * (w[2] + n * w[1])
         /\ out.kernel.workers[w].idx = PaddedIdx(w[1], w[2], w[3])
         /\ out.kernel.workers[w].idx \in DOMAIN out.kernel.phi.buf
    /\ \A o \in 0 .. (n * n * n - 1) :
         Cardinality({w \in Points(n) : out.kernel.workers[w].out_idx = o}) = 1

\* a snapshot whose value at some offset differs from the one an unpadded read
\* would give
C7_Witness ==
  /\ PhiSnapshot
  /\ \E w \in Points(n) :
       /\ PaddedIdx(w[1], w[2], w[3]) # w[3] + n * (w[2] + n * w[1])
       /\ LastPhiFile[w[3] + n * (w[2] + n * w[1])] #
            compute_phi(out.kernel.a,
                        out.kernel.phi.buf[w[3] + n * (w[2] + n * w[1])], mp)
       /\ LastPhiFile[w[3] + n * (w[2] + n * w[1])] # 0

\* product k as the step kernel is handed it: 0 when its coefficient is zero
Handed(k, j) == IF ProductGate(k, mp) THEN nlt[k].buf[j] ELSE 0

\* C8: step() advances every stored double of phi and chi by velocity Verlet;
\* the stored acceleration is the Klein-Gordon acceleration at the drifted
\* field, the products rebuilt from the drifted fields, and the new a, adot,
\* addot.
C8_FieldVerlet ==
  StepReturned =>
    /\ \A j \in MDoubles :
         /\ phi.buf[j] =
              Add(pre.f.phi[j],
                  Add(Mul(pre.f.phidot[j], ts.dt),
                      Mul(Mul(Half, pre.f.phiddot[j]), pow2(ts.dt))))
         /\ chi.buf[j] =
              Add(pre.f.chi[j],
                  Add(Mul(pre.f.chidot[j], ts.dt),
                      Mul(Mul(Half, pre.f.chiddot[j]), pow2(ts.dt))))
         /\ phidot.buf[j] =
              Add(pre.f.phidot[j],
                  Mul(Mul(Half, ts.dt), Add(pre.f.phiddot[j], phiddot.buf[j])))
         /\ chidot.buf[j] =
              Add(pre.f.chidot[j],
                  Mul(Mul(Half, ts.dt), Add(pre.f.chiddot[j], chiddot.buf[j])))
         /\ phiddot.buf[j] =
              dphidotdt(phi.buf[j], chi.buf[j], Handed("chi2phi", j), Handed("phi3", j),
                        Handed("phi5", j), Handed("phi_md", j),
                        ts.a, ts.adot, ts.addot, Mom2Of(j), mp)
         /\ chiddot.buf[j] =
              dchidotdt(phi.buf[j], chi.buf[j], Handed("phi2chi", j), Handed("chi3", j),
                        Handed("chi5", j), Handed("chi_md", j),
                        ts.a, ts.adot, ts.addot, Mom2Of(j), mp)
    /\ \A k \in ProductNames \ GatedOff(mp) :
         nlt[k] = Product(k, switch_state(phi, "position", n),
                          switch_state(chi, "position", n), mp, n)

\* a second step() that moved a mode of phi and its velocity, from a nonzero
\* acceleration to another one
C8_Witness ==
  /\ pc = "stepped"
  /\ stepno = 2
  /\ \E j \in MDoubles :
       /\ pre.f.phiddot[j] # 0
       /\ phiddot.buf[j] # pre.f.phiddot[j]
       /\ phi.buf[j] # pre.f.phi[j]
       /\ phidot.buf[j] # pre.f.phidot[j]
       /\ Mom2Of(j) # 0

\* C9: the index map of the kernels is a bijection from the launch grid onto
\* the stored modes; a worker writes only phiddot, chiddot, phidot, chidot at
\* its own index, so no two workers write the same element and none reads an
\* element another one writes.
C9_NoWriteSharing ==
  /\ {MomIdx(w[1], w[2], w[3], n) : w \in Modes(n)} = 0 .. (n * n * ((n \div 2) + 1) - 1)
  /\ Cardinality(Modes(n)) = n * n * ((n \div 2) + 1)
  /\ launch.kernel # "none" =>
       /\ DOMAIN launch.workers = Modes(n)
       /\ \A w \in Modes(n) :
            /\ launch.workers[w].idx = w[3] + ((n \div 2) + 1) * (w[2] + n * w[1])
            /\ launch.workers[w].wr \subseteq {"phiddot", "chiddot", "phidot", "chidot"}
       /\ Cardinality({launch.workers[w].idx : w \in Modes(n)}) = Cardinality(Modes(n))
       /\ \A e \in 0 .. (n * n * ((n \div 2) + 1) - 1) :
            \A u, v \in {w \in Modes(n) : launch.workers[w].idx = e} : u = v

\* a launch of the step kernel whose workers read phiddot, which they write
C9_Witness ==
  /\ launch.kernel = "step"
  /\ \E w \in DOMAIN launch.workers :
       /\ launch.workers[w].idx = n * n * ((n \div 2) + 1) - 1
       /\ "phiddot" \in launch.workers[w].rd \cap launch.workers[w].wr
       /\ "phidot" \in launch.workers[w].wr

\* C10: initialize() and step() leave ts.t and ts.dt as they are; initialize()
\* changes only addot of the time state; only the driver advances t.
C10_TimeFrame ==
  [][/\ pc # "stepped" => (ts'.t = ts.t /\ ts'.dt = ts.dt)
     /\ pc = "new" => (/\ ts'.a = ts.a
                       /\ ts'.adot = ts.adot
                       /\ ts'.physical_time = ts.physical_time)
     /\ ts'.dt = ts.dt]_vars

\* a step() returned with a, adot, addot and physical_time changed and t as
\* the driver left it
C10_Witness ==
  /\ pc = "stepped"
  /\ stepno = 2
  /\ tcount = 1
  /\ ts.t = ts.dt
  /\ ts.a # pre.ts.a
  /\ ts.adot # pre.ts.adot
  /\ ts.addot # pre.ts.addot
  /\ ts.physical_time # pre.ts.physical_time

====
